---- MODULE Spec2Model ----
(***************************************************************************)
(* A model of the SMM panel backend (src/main.py, src/schemas.py).         *)
(*                                                                         *)
(* The document store is five collections, each a sequence of documents    *)
(* in insertion order.  A document is a function from field names to       *)
(* values.  Money is counted in hundredths of a rupee ("cents"): the       *)
(* integer c stands for the IEEE-754 double nearest to c/100.              *)
(*                                                                         *)
(* Three specifications share the handlers:                                *)
(*   Spec          every handler, one request at a time;                   *)
(*   SpecSettings  settings replace requests interleaved store call by     *)
(*                 store call;                                             *)
(*   SpecAuth      admin bootstrap requests interleaved store call by      *)
(*                 store call, with the admin gate and the login.          *)
(***************************************************************************)
EXTENDS Integers, Sequences, FiniteSets, TLC

VARIABLES
    db,             \* TRUE iff the module-level database handle is not None
    adminuser,      \* collection "adminuser"
    service,        \* collection "service"
    order,          \* collection "order"
    payment,        \* collection "payment"
    panelsettings,  \* collection "panelsettings"
    pc,             \* per request slot: the store call it is about to make
    local,          \* per request slot: the payload of the request in flight
    req,            \* the request (or step) handled last
    resp,           \* the response it produced
    solo,           \* history: the slot whose delete_many was the last replace step
    settled         \* history: <<body>> of the last replace that ran undisturbed

vars == <<db, adminuser, service, order, payment, panelsettings,
          pc, local, req, resp, solo, settled>>

store == <<adminuser, service, order, payment, panelsettings>>

-----------------------------------------------------------------------------
(* Bounds of the model. *)

MaxAdmins == 2
MaxServices == 2
MaxOrders == 1
MaxPayments == 1
NumProcs == 2

Procs == 1..NumProcs

-----------------------------------------------------------------------------
(* Values. *)

None == "<None>"
NoToken == "<absent>"

(* dict.get(key, default) *)
Get(doc, key, default) == IF key \in DOMAIN doc THEN doc[key] ELSE default

(* Python truthiness of an Optional[str] header value. *)
Truthy(token) == token # NoToken /\ token # ""

-----------------------------------------------------------------------------
(* schemas.py: the pydantic models.  Construct(required, defaults, body)   *)
(* builds the model from the body: unknown keys are ignored, omitted keys take their     *)
(* declared default.  It is only used on a body that has every required    *)
(* field.                                                                  *)

HasRequired(required, body) == required \subseteq DOMAIN body

Construct(required, defaults, body) ==
    [k \in required \cup DOMAIN defaults |->
        IF k \in DOMAIN body THEN body[k] ELSE defaults[k]]

(* {k: d.get(k) for k in Model.model_fields.keys() if k in d} *)
Project(fields, doc) == [k \in (fields \cap DOMAIN doc) |-> doc[k]]

AdminUserRequired == {"name", "email", "password_hash"}
AdminUserDefaults == [role |-> "owner", is_active |-> TRUE]
AdminUserValid(m) == m.role \in {"owner", "manager"}

ServiceRequired == {"name", "category", "rate_per_1k_pkr"}
ServiceDefaults ==
    [description |-> None, min |-> 10, max |-> 10000, status |-> "active"]
ServiceValid(m) ==
    /\ m.rate_per_1k_pkr >= 0
    /\ m.min >= 0
    /\ m.max >= 0
    /\ m.status \in {"active", "paused"}

OrderRequired == {"service_id", "link", "quantity"}
OrderDefaults ==
    [user_email |-> None, note |-> None, status |-> "pending", charge_pkr |-> 0]
OrderValid(m) ==
    /\ m.quantity >= 1
    /\ m.status \in {"pending", "processing", "completed", "cancelled"}
    /\ m.charge_pkr >= 0

PaymentRequired == {"user_email", "method", "amount_pkr"}
PaymentDefaults == [reference |-> None, status |-> "pending"]
PaymentValid(m) ==
    /\ m.method \in {"JazzCash", "EasyPaisa", "BankTransfer"}
    /\ m.amount_pkr >= 0
    /\ m.status \in {"pending", "confirmed", "failed"}

PanelSettingsRequired == {}
PanelSettingsDefaults ==
    [panel_name |-> "SMM Panel (PK)", currency |-> "PKR",
     announcement |-> None, payment_methods |-> <<"JazzCash", "EasyPaisa">>]
PanelSettingsValid(m) == m.currency = "PKR"

Fields(required, defaults) == required \cup DOMAIN defaults

-----------------------------------------------------------------------------
(* IEEE-754 binary64 arithmetic, as far as create_order uses it.  A        *)
(* natural number is a sequence of limbs in base 2^15, least significant   *)
(* first, the last one nonzero.  A positive double is [m |-> mantissa,     *)
(* e |-> exponent]: the mantissa is a natural number of exactly 53 bits    *)
(* and the value is m * 2^e.  Every operation rounds to nearest, ties to   *)
(* even.                                                                   *)

MantissaBits == 53
LimbBits == 15
LimbBase == 2 ^ LimbBits

RECURSIVE Strip(_)
Strip(a) ==
    IF a # <<>> /\ a[Len(a)] = 0 THEN Strip(SubSeq(a, 1, Len(a) - 1)) ELSE a

RECURSIVE NatOfInt(_)
NatOfInt(n) ==
    IF n = 0 THEN <<>> ELSE <<n % LimbBase>> \o NatOfInt(n \div LimbBase)

RECURSIVE IntOfNat(_)
IntOfNat(a) == IF a = <<>> THEN 0 ELSE a[1] + LimbBase * IntOfNat(Tail(a))

RECURSIVE AddNat(_, _, _)
AddNat(a, b, c) ==
    IF a = <<>> /\ b = <<>>
    THEN (IF c = 0 THEN <<>> ELSE <<c>>)
    ELSE LET x == IF a = <<>> THEN 0 ELSE a[1]
             y == IF b = <<>> THEN 0 ELSE b[1]
             s == x + y + c
         IN <<s % LimbBase>> \o AddNat(IF a = <<>> THEN a ELSE Tail(a),
                                       IF b = <<>> THEN b ELSE Tail(b),
                                       s \div LimbBase)

RECURSIVE MulLimb(_, _, _)
MulLimb(a, d, c) ==
    IF a = <<>>
    THEN (IF c = 0 THEN <<>> ELSE <<c>>)
    ELSE LET t == a[1] * d + c
         IN <<t % LimbBase>> \o MulLimb(Tail(a), d, t \div LimbBase)

RECURSIVE MulNat(_, _)
MulNat(a, b) ==
    IF b = <<>> THEN <<>>
    ELSE Strip(AddNat(MulLimb(a, b[1], 0), <<0>> \o MulNat(a, Tail(b)), 0))

RECURSIVE IntBitLen(_)
IntBitLen(n) == IF n = 0 THEN 0 ELSE 1 + IntBitLen(n \div 2)

BitLen(a) ==
    IF a = <<>> THEN 0 ELSE (Len(a) - 1) * LimbBits + IntBitLen(a[Len(a)])

(* Bit i of a, bit 1 being the least significant. *)
Bit(a, i) ==
    LET limb == ((i - 1) \div LimbBits) + 1
        pos == (i - 1) % LimbBits
    IN IF i >= 1 /\ limb \in DOMAIN a THEN (a[limb] \div (2 ^ pos)) % 2 ELSE 0

LowBitsNonzero(a, k) == \E i \in 1..k : Bit(a, i) = 1

(* floor(a / 2^k) *)
ShiftRight(a, k) ==
    LET w == k \div LimbBits
        r == k % LimbBits
    IN IF w >= Len(a) THEN <<>>
       ELSE Strip([i \in 1..(Len(a) - w) |->
                (a[i + w] \div (2 ^ r))
                + (IF i + w + 1 <= Len(a)
                   THEN (a[i + w + 1] % (2 ^ r)) * (2 ^ (LimbBits - r))
                   ELSE 0)])

(* The nearest double to n * 2^e, where n has at least 53 bits and sticky  *)
(* tells whether nonzero digits were already cut off below n.              *)
RoundToDouble(n, e, sticky) ==
    LET drop == BitLen(n) - MantissaBits
        kept == ShiftRight(n, drop)
        guard == Bit(n, drop)
        rest == sticky \/ LowBitsNonzero(n, drop - 1)
        up == guard = 1 /\ (rest \/ Bit(kept, 1) = 1)
        m == IF up THEN AddNat(kept, <<>>, 1) ELSE kept
    IN IF BitLen(m) > MantissaBits
       THEN [m |-> ShiftRight(m, 1), e |-> e + drop + 1]
       ELSE [m |-> m, e |-> e + drop]

(* a * 2^k *)
ShiftLeft(a, k) ==
    [i \in 1..(k \div LimbBits) |-> 0] \o MulLimb(a, 2 ^ (k % LimbBits), 0)

(* Quotient and remainder of a by a divisor d < 2^16. *)
RECURSIVE DivSmall(_, _)
DivSmall(a, d) ==
    IF a = <<>> THEN [quot |-> <<>>, rem |-> 0]
    ELSE LET hi == DivSmall(Tail(a), d)
             cur == hi.rem * LimbBase + a[1]
         IN [quot |-> <<cur \div d>> \o hi.quot, rem |-> cur % d]

(* float(n) / float(d), and the double a decimal literal n/d parses to:    *)
(* the nearest double to the rational n / d (0 < n < 2^31, 0 < d < 2^16).  *)
DoubleOfRatio(n, d) ==
    LET t == MantissaBits + 1 + IntBitLen(d) - IntBitLen(n)
        q == DivSmall(ShiftLeft(NatOfInt(n), t), d)
    IN RoundToDouble(Strip(q.quot), 0 - t, q.rem # 0)

(* x * y *)
DoubleMul(x, y) == RoundToDouble(MulNat(x.m, y.m), x.e + y.e, FALSE)

(* round(x, 2) in cents: float.__round__ rounds the exact binary value of  *)
(* x to two decimals, ties to even, and returns the nearest double to the  *)
(* result.  Here x < 2^52, so x.e < 0.                                      *)
RoundCents(x) ==
    LET p == MulNat(x.m, NatOfInt(100))
        s == 0 - x.e
        whole == ShiftRight(p, s)
        up == Bit(p, s) = 1 /\ (LowBitsNonzero(p, s - 1) \/ Bit(whole, 1) = 1)
    IN IntOfNat(whole) + (IF up THEN 1 ELSE 0)

(* round((quantity / 1000.0) * rate, 2), in cents, for a rate of           *)
(* rateCents / 100.                                                        *)
Charge(quantity, rateCents) ==
    IF rateCents = 0 THEN 0
    ELSE RoundCents(DoubleMul(DoubleOfRatio(quantity, 1000),
                              DoubleOfRatio(rateCents, 100)))

-----------------------------------------------------------------------------
(* The document store: pymongo's calls on a collection. *)

Matches(doc, key, value) == key \in DOMAIN doc /\ doc[key] = value

Hits(coll, key, value) == {i \in 1..Len(coll) : Matches(coll[i], key, value)}

(* find_one({key: value}): the index of the first match, 0 for None. *)
find_one(coll, key, value) ==
    LET hits == Hits(coll, key, value)
    IN IF hits = {} THEN 0 ELSE CHOOSE i \in hits : \A j \in hits : i <= j

Without(coll, i) == SubSeq(coll, 1, i - 1) \o SubSeq(coll, i + 1, Len(coll))

(* delete_one({key: value}): the first match goes, if there is one. *)
delete_one(coll, key, value) ==
    LET i == find_one(coll, key, value)
    IN IF i = 0 THEN [coll |-> coll, deleted_count |-> 0]
       ELSE [coll |-> Without(coll, i), deleted_count |-> 1]

(* delete_one({}) in the place of delete_many({}). *)
delete_many_only_first(coll) == IF coll = <<>> THEN coll ELSE Tail(coll)

(* delete_many({}) *)
delete_many(coll) == <<>>

insert_one(coll, doc) == Append(coll, doc)

(* database.create_document(name, model): insert_one of the model's dump. *)
create_document(coll, model) == insert_one(coll, model)

(* database.get_documents(name): every document of the collection. *)
get_documents(coll) == coll

(* Each document projected to the model's fields and built into a model,  *)
(* as the list handlers do.                                                *)
ParseAll(required, defaults, docs) ==
    [i \in 1..Len(docs) |->
        Construct(required, defaults,
                  Project(Fields(required, defaults), docs[i]))]

-----------------------------------------------------------------------------
(* Responses. *)

Response(status, detail, body) ==
    [status |-> status, detail |-> detail, body |-> body]

(* A response body is a sequence of documents: one for a document, none   *)
(* for an error.                                                           *)
NoBody == <<>>
OkList(docs) == Response(200, "", docs)
Ok(doc) == Response(200, "", <<doc>>)
HttpError(status, detail) == Response(status, detail, NoBody)
NotConfigured == HttpError(500, "Database not configured")
Unprocessable == HttpError(422, "Validation error")
Pending == Response(0, "", NoBody)

Request(op, token, arg) == [op |-> op, token |-> token, arg |-> arg]

(* Variants of require_admin with one check left out. *)
require_admin_ignores_active(token) ==
    IF ~db THEN NotConfigured
    ELSE IF ~Truthy(token) THEN HttpError(401, "Missing admin token")
    ELSE LET i == find_one(adminuser, "email", token)
         IN IF i = 0 THEN HttpError(401, "Invalid admin token")
            ELSE Ok(adminuser[i])

require_admin_any_token(token) ==
    IF ~db THEN NotConfigured
    ELSE IF ~Truthy(token) THEN HttpError(401, "Missing admin token")
    ELSE LET i == find_one(adminuser, "email", token)
         IN IF i = 0 THEN OkList(<<>>)
            ELSE IF ~Get(adminuser[i], "is_active", TRUE)
                 THEN HttpError(403, "Admin disabled")
                 ELSE Ok(adminuser[i])

require_admin_no_handle_check(token) ==
    IF ~Truthy(token) THEN HttpError(401, "Missing admin token")
    ELSE LET i == find_one(adminuser, "email", token)
         IN IF i = 0 THEN HttpError(401, "Invalid admin token")
            ELSE IF ~Get(adminuser[i], "is_active", TRUE)
                 THEN HttpError(403, "Admin disabled")
                 ELSE Ok(adminuser[i])

(* require_admin: the response the gate raises, or Ok(admin). *)
require_admin(token) ==
    IF ~db THEN NotConfigured
    ELSE IF ~Truthy(token) THEN HttpError(401, "Missing admin token")
    ELSE LET i == find_one(adminuser, "email", token)
         IN IF i = 0 THEN HttpError(401, "Invalid admin token")
            ELSE IF ~Get(adminuser[i], "is_active", TRUE)
                 THEN HttpError(403, "Admin disabled")
                 ELSE Ok(adminuser[i])

-----------------------------------------------------------------------------
(* The handlers, each as one step. *)

(* POST /api/admin/login *)
admin_login(email, password_hash) ==
    /\ req' = Request("admin_login", NoToken,
                      [email |-> email, password_hash |-> password_hash])
    /\ resp' =
        IF ~db THEN NotConfigured
        ELSE LET i == find_one(adminuser, "email", email)
             IN IF \/ i = 0
                   \/ Get(adminuser[i], "password_hash", None) # password_hash
                   \/ ~Get(adminuser[i], "is_active", TRUE)
                THEN HttpError(401, "Invalid credentials")
                ELSE Ok([token |-> email,
                         name |-> Get(adminuser[i], "name", "Admin"),
                         role |-> Get(adminuser[i], "role", "owner")])
    /\ UNCHANGED <<db, store, pc, local, solo, settled>>

(* GET /api/settings: the body it returns from a collection. *)
ReadSettings(coll) ==
    LET doc == IF coll = <<>> THEN <<>> ELSE coll[1]
    IN Construct(PanelSettingsRequired, PanelSettingsDefaults,
                 Project(Fields(PanelSettingsRequired, PanelSettingsDefaults), doc))

get_settings ==
    /\ req' = Request("get_settings", NoToken, <<>>)
    /\ resp' = IF ~db THEN NotConfigured ELSE Ok(ReadSettings(panelsettings))
    /\ UNCHANGED <<db, store, pc, local, solo, settled>>

SettingsBodyOk(body) ==
    /\ HasRequired(PanelSettingsRequired, body)
    /\ PanelSettingsValid(Construct(PanelSettingsRequired, PanelSettingsDefaults, body))

SettingsPayload(body) ==
    Construct(PanelSettingsRequired, PanelSettingsDefaults, body)

(* delete_many({}) then insert_one(payload.model_dump()) *)
ReplaceSettings(coll, payload) == insert_one(delete_many(coll), payload)

(* POST /api/settings *)
update_settings(token, body) ==
    /\ req' = Request("update_settings", token, body)
    /\ LET gate == require_admin(token)
           run == gate.status = 200 /\ SettingsBodyOk(body)
       IN /\ resp' = IF gate.status # 200 THEN gate
                     ELSE IF ~SettingsBodyOk(body) THEN Unprocessable
                     ELSE Ok(SettingsPayload(body))
          /\ panelsettings' =
                IF run THEN ReplaceSettings(panelsettings, SettingsPayload(body))
                ELSE panelsettings
          /\ settled' = IF run THEN <<body>> ELSE settled
          /\ solo' = IF run THEN 0 ELSE solo
    /\ UNCHANGED <<db, adminuser, service, order, payment, pc, local>>

(* AdminUser(name=..., email=..., password_hash=..., role="owner", is_active=True) *)
NewAdmin(payload) ==
    Construct(AdminUserRequired, AdminUserDefaults,
              [name |-> payload.name, email |-> payload.email,
               password_hash |-> payload.password_hash,
               role |-> "owner", is_active |-> TRUE])

(* The existence check left out. *)
exists_never(email) == FALSE

(* exists = db.adminuser.find_one({"email": payload.email}); if exists *)
exists(email) == find_one(adminuser, "email", email) # 0

(* POST /api/admin/bootstrap *)
bootstrap_admin(payload) ==
    /\ req' = Request("bootstrap_admin", NoToken, payload)
    /\ LET found == exists(payload.email)
           run == db /\ ~found
       IN /\ run => Len(adminuser) < MaxAdmins
          /\ resp' = IF ~db THEN NotConfigured
                     ELSE IF found THEN HttpError(400, "Admin already exists")
                     ELSE Ok([status |-> "ok"])
          /\ adminuser' = IF run THEN create_document(adminuser, NewAdmin(payload))
                          ELSE adminuser
    /\ UNCHANGED <<db, service, order, payment, panelsettings, pc, local, solo, settled>>

(* GET /api/services *)
list_services ==
    /\ req' = Request("list_services", NoToken, <<>>)
    /\ resp' = IF ~db THEN OkList(<<>>)
               ELSE OkList(ParseAll(ServiceRequired, ServiceDefaults, get_documents(service)))
    /\ UNCHANGED <<db, store, pc, local, solo, settled>>

ServiceBodyOk(body) ==
    /\ HasRequired(ServiceRequired, body)
    /\ ServiceValid(Construct(ServiceRequired, ServiceDefaults, body))

(* POST /api/services *)
create_service(token, body) ==
    /\ req' = Request("create_service", token, body)
    /\ LET gate == require_admin(token)
           run == gate.status = 200 /\ ServiceBodyOk(body)
           payload == Construct(ServiceRequired, ServiceDefaults, body)
       IN /\ run => Len(service) < MaxServices
          /\ resp' = IF gate.status # 200 THEN gate
                     ELSE IF ~ServiceBodyOk(body) THEN Unprocessable
                     ELSE Ok(payload)
          /\ service' = IF run THEN create_document(service, payload) ELSE service
    /\ UNCHANGED <<db, adminuser, order, payment, panelsettings, pc, local, solo, settled>>

(* DELETE /api/services/{name} *)
delete_service(token, name) ==
    /\ req' = Request("delete_service", token, [name |-> name])
    /\ LET gate == require_admin(token)
           res == delete_one(service, "name", name)
       IN /\ resp' = IF gate.status # 200 THEN gate
                     ELSE Ok([deleted |-> res.deleted_count])
          /\ service' = IF gate.status = 200 THEN res.coll ELSE service
    /\ UNCHANGED <<db, adminuser, order, payment, panelsettings, pc, local, solo, settled>>

OrderBodyOk(body) ==
    /\ HasRequired(OrderRequired, body)
    /\ OrderValid(Construct(OrderRequired, OrderDefaults, body))

(* find_one({}) in the place of find_one({"name": ...}). *)
find_service_any(service_id) == IF service = <<>> THEN 0 ELSE 1

(* service = db.service.find_one({"name": payload.service_id}) *)
find_service(service_id) == find_one(service, "name", service_id)

(* POST /api/orders *)
create_order(body) ==
    /\ req' = Request("create_order", NoToken, body)
    /\ LET i == find_service(body.service_id)
           run == OrderBodyOk(body) /\ db /\ i # 0
           rate == Get(service[i], "rate_per_1k_pkr", 0)
           payload == [Construct(OrderRequired, OrderDefaults, body)
                          EXCEPT !.charge_pkr = Charge(body.quantity, rate)]
       IN /\ run => Len(order) < MaxOrders
          /\ resp' = IF ~OrderBodyOk(body) THEN Unprocessable
                     ELSE IF ~db THEN NotConfigured
                     ELSE IF i = 0 THEN HttpError(404, "Service not found")
                     ELSE Ok(payload)
          /\ order' = IF run THEN create_document(order, payload) ELSE order
    /\ UNCHANGED <<db, adminuser, service, payment, panelsettings, pc, local, solo, settled>>

(* GET /api/orders *)
list_orders(token) ==
    /\ req' = Request("list_orders", token, <<>>)
    /\ LET gate == require_admin(token)
       IN resp' = IF gate.status # 200 THEN gate
                  ELSE OkList(ParseAll(OrderRequired, OrderDefaults, get_documents(order)))
    /\ UNCHANGED <<db, store, pc, local, solo, settled>>

PaymentBodyOk(body) ==
    /\ HasRequired(PaymentRequired, body)
    /\ PaymentValid(Construct(PaymentRequired, PaymentDefaults, body))

(* POST /api/payments *)
create_payment(body) ==
    /\ req' = Request("create_payment", NoToken, body)
    /\ LET run == PaymentBodyOk(body) /\ db
           payload == Construct(PaymentRequired, PaymentDefaults, body)
       IN /\ run => Len(payment) < MaxPayments
          /\ resp' = IF ~PaymentBodyOk(body) THEN Unprocessable
                     ELSE IF ~db THEN NotConfigured
                     ELSE Ok(payload)
          /\ payment' = IF run THEN create_document(payment, payload) ELSE payment
    /\ UNCHANGED <<db, adminuser, service, order, panelsettings, pc, local, solo, settled>>

(* GET /api/payments *)
list_payments(token) ==
    /\ req' = Request("list_payments", token, <<>>)
    /\ LET gate == require_admin(token)
       IN resp' = IF gate.status # 200 THEN gate
                  ELSE OkList(ParseAll(PaymentRequired, PaymentDefaults, get_documents(payment)))
    /\ UNCHANGED <<db, store, pc, local, solo, settled>>

(* An operator with direct storage access sets is_active on the admin      *)
(* documents of one email.                                                 *)
OperatorSetActive(email, active) ==
    /\ db
    /\ \E i \in Hits(adminuser, "email", email) : adminuser[i].is_active # active
    /\ adminuser' = [i \in 1..Len(adminuser) |->
                        IF Matches(adminuser[i], "email", email)
                        THEN [adminuser[i] EXCEPT !.is_active = active]
                        ELSE adminuser[i]]
    /\ req' = Request("operator_set_active", NoToken,
                      [email |-> email, is_active |-> active])
    /\ resp' = Pending
    /\ UNCHANGED <<db, service, order, payment, panelsettings, pc, local, solo, settled>>

-----------------------------------------------------------------------------------------------------------------------------------------------------
(* POST /api/settings store call by store call, for requests that run      *)
(* concurrently: the gate and the validation, then delete_many, then       *)
(* insert_one.                                                             *)

update_settings_gate(p, token, body) ==
    /\ pc[p] = "idle"
    /\ req' = Request("update_settings", token, body)
    /\ LET gate == require_admin(token)
           run == gate.status = 200 /\ SettingsBodyOk(body)
       IN /\ resp' = IF gate.status # 200 THEN gate
                     ELSE IF ~SettingsBodyOk(body) THEN Unprocessable
                     ELSE Pending
          /\ pc' = IF run THEN [pc EXCEPT ![p] = "delete_many"] ELSE pc
          /\ local' = IF run THEN [local EXCEPT ![p] = body] ELSE local
    /\ UNCHANGED <<db, store, solo, settled>>

update_settings_delete_many(p) ==
    /\ pc[p] = "delete_many"
    /\ panelsettings' = delete_many(panelsettings)
    /\ pc' = [pc EXCEPT ![p] = "insert_one"]
    /\ req' = Request("update_settings.delete_many", NoToken, local[p])
    /\ resp' = Pending
    /\ solo' = p
    /\ settled' = <<>>
    /\ UNCHANGED <<db, adminuser, service, order, payment, local>>

update_settings_insert_one(p) ==
    /\ pc[p] = "insert_one"
    /\ panelsettings' = insert_one(panelsettings, SettingsPayload(local[p]))
    /\ pc' = [pc EXCEPT ![p] = "idle"]
    /\ local' = [local EXCEPT ![p] = <<>>]
    /\ req' = Request("update_settings.insert_one", NoToken, local[p])
    /\ resp' = Ok(SettingsPayload(local[p]))
    /\ settled' = IF solo = p THEN <<local[p]>> ELSE <<>>
    /\ solo' = 0
    /\ UNCHANGED <<db, adminuser, service, order, payment>>

(* POST /api/admin/bootstrap store call by store call: find_one and the    *)
(* decision, then the insert.                                              *)

bootstrap_admin_find_one(p, payload) ==
    /\ pc[p] = "idle"
    /\ req' = Request("bootstrap_admin", NoToken, payload)
    /\ LET found == exists(payload.email)
           run == db /\ ~found
       IN /\ resp' = IF ~db THEN NotConfigured
                     ELSE IF found THEN HttpError(400, "Admin already exists")
                     ELSE Pending
          /\ pc' = IF run THEN [pc EXCEPT ![p] = "insert_one"] ELSE pc
          /\ local' = IF run THEN [local EXCEPT ![p] = payload] ELSE local
    /\ UNCHANGED <<db, store, solo, settled>>

bootstrap_admin_create_document(p) ==
    /\ pc[p] = "insert_one"
    /\ Len(adminuser) < MaxAdmins
    /\ adminuser' = create_document(adminuser, NewAdmin(local[p]))
    /\ pc' = [pc EXCEPT ![p] = "idle"]
    /\ local' = [local EXCEPT ![p] = <<>>]
    /\ req' = Request("bootstrap_admin.insert_one", NoToken, local[p])
    /\ resp' = Ok([status |-> "ok"])
    /\ UNCHANGED <<db, service, order, payment, panelsettings, solo, settled>>

-----
(* One request at a time. *)

Tokens == {NoToken, "a@x", "b@x"}

Bootstraps == {[name |-> "N1", email |-> "a@x", password_hash |-> "h1"]}

Logins == {<<"a@x", "h1">>, <<"a@x", "h2">>, <<"b@x", "h1">>}

SettingsBodies ==
    {<<>>, [panel_name |-> "X"], [currency |-> "USD"]}

ServiceNames == {"s1", "s2"}

ServiceBodies ==
    {[name |-> "s1", category |-> "c", rate_per_1k_pkr |-> 9950],
     [name |-> "s2", category |-> "c", rate_per_1k_pkr |-> 50000],
     [name |-> "s2", category |-> "c", rate_per_1k_pkr |-> 0 - 100]}

OrderBodies ==
    {[service_id |-> "s1", link |-> "l", quantity |-> 0],
     [service_id |-> "s1", link |-> "l", quantity |-> 10],
     [service_id |-> "s2", link |-> "l", quantity |-> 2500, charge_pkr |-> 700]}

PaymentBodies ==
    {[user_email |-> "u@x", method |-> m, amount_pkr |-> 50000] :
        m \in {"JazzCash", "Cheque"}}

Init ==
    /\ db \in BOOLEAN
    /\ adminuser = <<>>
    /\ service = <<>>
    /\ order = <<>>
    /\ payment = <<>>
    /\ panelsettings = <<>>
    /\ pc = [p \in Procs |-> "idle"]
    /\ local = [p \in Procs |-> <<>>]
    /\ req = Request("none", NoToken, <<>>)
    /\ resp = Pending
    /\ solo = 0
    /\ settled = <<>>

Next ==
    \/ \E l \in Logins : admin_login(l[1], l[2])
    \/ get_settings
    \/ \E t \in Tokens, b \in SettingsBodies : update_settings(t, b)
    \/ \E b \in Bootstraps : bootstrap_admin(b)
    \/ \E e \in {"a@x"}, a \in BOOLEAN : OperatorSetActive(e, a)
    \/ list_services
    \/ \E t \in Tokens, b \in ServiceBodies : create_service(t, b)
    \/ \E t \in Tokens, n \in ServiceNames : delete_service(t, n)
    \/ \E b \in OrderBodies : create_order(b)
    \/ \E t \in Tokens : list_orders(t)
    \/ \E b \in PaymentBodies : create_payment(b)
    \/ \E t \in Tokens : list_payments(t)

Spec == Init /\ [][Next]_vars

-----------------------------------------------------------------------------
(* Settings replace requests running concurrently, with an active admin    *)
(* already bootstrapped.                                                   *)

TheAdmin == NewAdmin([name |-> "N1", email |-> "a@x", password_hash |-> "h1"])

ReplaceBodies ==
    {<<>>, [panel_name |-> "X"], [announcement |-> "A"],
     [panel_name |-> "Y", announcement |-> "B", payment_methods |-> <<"BankTransfer">>]}

InitSettings ==
    /\ db = TRUE
    /\ adminuser = <<TheAdmin>>
    /\ service = <<>>
    /\ order = <<>>
    /\ payment = <<>>
    /\ panelsettings = <<>>
    /\ pc = [p \in Procs |-> "idle"]
    /\ local = [p \in Procs |-> <<>>]
    /\ req = Request("none", NoToken, <<>>)
    /\ resp = Pending
    /\ solo = 0
    /\ settled = <<>>

NextSettings ==
    \/ \E p \in Procs, t \in {"a@x", NoToken}, b \in ReplaceBodies :
            update_settings_gate(p, t, b)
    \/ \E p \in Procs : update_settings_delete_many(p)
    \/ \E p \in Procs : update_settings_insert_one(p)
    \/ get_settings

SpecSettings == InitSettings /\ [][NextSettings]_vars

-----------------------------------------------------------------------------
(* Bootstrap requests running concurrently, with the login, the gate (as   *)
(* the two gated listings exercise it) and the operator.                   *)

Emails == {"", "a@x"}

AuthBootstraps ==
    {[name |-> "N1", email |-> e, password_hash |-> "h1"] : e \in Emails}
    \cup {[name |-> "N2", email |-> "a@x", password_hash |-> "h2"]}

AuthTokens == {NoToken} \cup Emails

NextAuth ==
    \/ \E p \in Procs, b \in AuthBootstraps : bootstrap_admin_find_one(p, b)
    \/ \E p \in Procs : bootstrap_admin_create_document(p)
    \/ \E e \in Emails, a \in BOOLEAN : OperatorSetActive(e, a)
    \/ \E e \in Emails, h \in {"h1", "h2"} : admin_login(e, h)
    \/ \E t \in AuthTokens : list_orders(t)
    \/ \E t \in AuthTokens : list_payments(t)

SpecAuth == Init /\ [][NextAuth]_vars

-----------------------------------------------------------------------------
(* The properties checked. *)

GatedOps ==
    {"update_settings", "create_service", "delete_service",
     "list_orders", "list_payments"}

(* The admin documents whose email is the token. *)
AdminsOf(token) == {i \in 1..Len(adminuser) : adminuser[i].email = token}

First(S) == CHOOSE i \in S : \A j \in S : i <= j

Named(coll, name) == {i \in 1..Len(coll) : coll[i].name = name}

(* C1: delete-service-by-name with an accepted token leaves no service     *)
(* document of that name and reports as deleted the number of documents    *)
(* that had the name before the call.                                      *)
C1_DeleteRemovesEveryMatch ==
    [][(req'.op = "delete_service" /\ resp'.status = 200) =>
          /\ Named(service', req'.arg.name) = {}
          /\ resp'.body[1].deleted = Cardinality(Named(service, req'.arg.name))]_vars

(* C2: the panelsettings collection never holds more than one document,    *)
(* also when replace requests interleave their delete and insert.          *)
C2_SettingsSingleton == Len(panelsettings) <= 1

(* What a read must return after a replace with this request body: the     *)
(* body's fields, and the declared default of every field it omits.        *)
ExpectedSettings(body) ==
    [panel_name |-> IF "panel_name" \in DOMAIN body
                    THEN body.panel_name ELSE "SMM Panel (PK)",
     currency |-> "PKR",
     announcement |-> IF "announcement" \in DOMAIN body
                      THEN body.announcement ELSE None,
     payment_methods |-> IF "payment_methods" \in DOMAIN body
                         THEN body.payment_methods
                         ELSE <<"JazzCash", "EasyPaisa">>]

(* C3: once a replace with body P has run its delete and its insert with   *)
(* no step of another replace in between, and until the next replace       *)
(* step, the stored settings read back as exactly P's fields with the      *)
(* declared defaults for the omitted ones, and GET /api/settings returns   *)
(* that.                                                                   *)
C3_ReplaceIsTotalOverwrite ==
    settled # <<>> =>
        /\ ReadSettings(panelsettings) = ExpectedSettings(settled[1])
        /\ (req.op = "get_settings" =>
                resp = Ok(ExpectedSettings(settled[1])))

C3_Witness ==
    /\ settled = <<[panel_name |-> "X"]>>
    /\ req.op = "get_settings"
    /\ resp.status = 200
    /\ resp.body[1].panel_name = "X"
    /\ resp.body[1].announcement = None
    /\ Len(panelsettings) = 1

ClaimRejects(token) ==
    \/ token = NoToken
    \/ AdminsOf(token) = {}
    \/ \E i \in AdminsOf(token) : ~adminuser[i].is_active

(* C5: a gated request whose token is missing, matches no admin or matches *)
(* an inactive admin changes no collection and returns an error without    *)
(* any stored document.                                                    *)
C5_RejectedRequestChangesNothing ==
    [][(req'.op \in GatedOps /\ ClaimRejects(req'.token)) =>
          /\ store' = store
          /\ resp'.status \in {401, 403, 500}
          /\ resp'.body = NoBody]_vars

(* A delete by a deactivated admin was rejected with services stored. *)
C5_Witness ==
    /\ req.op = "delete_service"
    /\ resp.status = 403
    /\ Named(service, req.arg.name) # {}
    /\ order # <<>>

(* C6: bootstrapping with an email that has an admin record returns 400    *)
(* "Admin already exists" and leaves adminuser as it was; with an unused   *)
(* email (and the store available) the request goes on to its insert,      *)
(* which appends exactly one record with the payload's name, email and     *)
(* password_hash, role "owner" and is_active true.                         *)
C6_BootstrapRejectsUsedEmail ==
    [][/\ (req'.op = "bootstrap_admin" /\ AdminsOf(req'.arg.email) # {} =>
              /\ resp' = HttpError(400, "Admin already exists")
              /\ adminuser' = adminuser
              /\ pc' = pc)
       /\ (req'.op = "bootstrap_admin" /\ AdminsOf(req'.arg.email) = {} /\ db =>
              /\ adminuser' = adminuser
              /\ \E p \in Procs : /\ pc[p] = "idle"
                                  /\ pc'[p] = "insert_one"
                                  /\ local'[p] = req'.arg)
       /\ (req'.op = "bootstrap_admin.insert_one" =>
              /\ adminuser' = Append(adminuser,
                    [name |-> req'.arg.name, email |-> req'.arg.email,
                     password_hash |-> req'.arg.password_hash,
                     role |-> "owner", is_active |-> TRUE])
              /\ resp' = Ok([status |-> "ok"]))]_vars

(* A second bootstrap of a used email, with another name, was refused. *)
C6_Witness ==
    /\ req.op = "bootstrap_admin"
    /\ req.arg.name = "N2"
    /\ resp = HttpError(400, "Admin already exists")
    /\ Len(adminuser) = 1
    /\ adminuser[1].name = "N1"
    /\ adminuser[1].email = "a@x"

(* n / d rounded to an integer, ties to even and ties up. *)
RoundHalfEven(n, d) ==
    LET f == n \div d
        r2 == 2 * (n % d)
    IN IF r2 > d \/ (r2 = d /\ f % 2 = 1) THEN f + 1 ELSE f

RoundHalfUp(n, d) == (2 * n + d) \div (2 * d)

(* C7: an accepted order for a service of rate r and quantity q is stored  *)
(* and returned with charge_pkr = round(q / 1000 * r, 2), whatever charge  *)
(* the caller sent (in cents: q * r / 1000 rounded to an integer, under    *)
(* either rounding of ties).                                               *)
C7_ChargeIsRoundedProduct ==
    (req.op = "create_order" /\ resp.status = 200) =>
        LET i == First(Named(service, req.arg.service_id))
            r == Get(service[i], "rate_per_1k_pkr", 0)
            q == req.arg.quantity
        IN /\ resp.body[1].charge_pkr \in
                {RoundHalfEven(q * r, 1000), RoundHalfUp(q * r, 1000)}
           /\ order # <<>>
           /\ order[Len(order)] = resp.body[1]

(* The validity of an order payload, as the Order model declares it. *)
ClaimValidOrder(body) ==
    /\ body.quantity >= 1
    /\ ("charge_pkr" \in DOMAIN body => body.charge_pkr >= 0)

(* C8 as claimed, with the store available: an order whose service_id      *)
(* names no stored service gets 404 "Service not found", whether or not    *)
(* its other fields are valid, and no order is inserted.                   *)
C8_MissingServiceAlwaysNotFound ==
    [][(db /\ req'.op = "create_order"
           /\ Named(service, req'.arg.service_id) = {}) =>
          /\ resp' = HttpError(404, "Service not found")
          /\ order' = order]_vars

(* C8 amended: with the store available, an order whose service_id names   *)
(* no stored service inserts no order; it gets 404 "Service not found" if  *)
(* its payload is valid and 422 if it is not.                              *)
C8_ValidOrderForMissingServiceNotFound ==
    [][(db /\ req'.op = "create_order"
           /\ Named(service, req'.arg.service_id) = {}) =>
          /\ order' = order
          /\ IF ClaimValidOrder(req'.arg)
             THEN resp' = HttpError(404, "Service not found")
             ELSE resp'.status = 422]_vars

(* A valid order named a service that is not stored while another is. *)
C8_Witness ==
    /\ req.op = "create_order"
    /\ ClaimValidOrder(req.arg)
    /\ resp = HttpError(404, "Service not found")
    /\ service # <<>>
    /\ Named(service, req.arg.service_id) = {}

ListingOps == {"list_services", "list_orders", "list_payments"}

(* The operations whose handling of a missing handle is in main.py: every  *)
(* one but create_payment, which leaves it to database.create_document.    *)
HandleCheckedOps ==
    {"admin_login", "get_settings", "update_settings", "bootstrap_admin",
     "create_service", "delete_service", "create_order"}

(* C9 as claimed: without a database handle every listing returns an empty *)
(* sequence and every other operation (given a payload that passes         *)
(* validation) fails with 500 "Database not configured".                   *)
C9_ListingsDegradeOthersFail ==
    ~db =>
        /\ req.op \in ListingOps => resp.status = 200 /\ resp.body = <<>>
        /\ (req.op \in HandleCheckedOps /\ resp.status # 422) =>
                resp = NotConfigured

(* C9 amended: without a database handle, list services returns an empty   *)
(* sequence, while list orders and list payments, whose admin gate runs    *)
(* first, fail with 500 "Database not configured" like login, settings     *)
(* read and replace, bootstrap, create and delete service, and create      *)
(* order with a valid payload; an invalid order gets 422; nothing is       *)
(* stored.                                                                 *)
C9_OnlyListServicesDegrades ==
    ~db =>
        /\ req.op = "list_services" => resp.status = 200 /\ resp.body = <<>>
        /\ req.op \in {"list_orders", "list_payments"} => resp = NotConfigured
        /\ req.op \in HandleCheckedOps \ {"create_order"} => resp = NotConfigured
        /\ req.op = "create_order" =>
                IF ClaimValidOrder(req.arg) THEN resp = NotConfigured
                ELSE resp.status = 422
        /\ store = <<<<>>, <<>>, <<>>, <<>>, <<>>>>

C9_Witness ==
    /\ ~db
    /\ req.op = "list_payments"
    /\ req.token = "a@x"
    /\ resp = NotConfigured

(* C10: no two admin documents have the same email, also when bootstrap    *)
(* requests for one email interleave their check and their insert.         *)
C10_OneAdminPerEmail ==
    \A i, j \in 1..Len(adminuser) :
        i # j => adminuser[i].email # adminuser[j].email

====
